---- MODULE Spec2Model ----
(***************************************************************************)
(* Session state machine of the charger simulator (src/src/App.tsx) and   *)
(* the three collector calls it makes (src/src/api.ts).                    *)
(*                                                                         *)
(* One action is one turn of the browser's event loop: a button click, a  *)
(* timer callback, or the continuation of an awaited network call.  All   *)
(* React state setters called in one turn are applied together, and the   *)
(* updater passed to setChargerState runs once per call of sendUpdate.     *)
(*                                                                         *)
(* Reals are held in fixed point: soc, tempC, voltageV and currentA in    *)
(* hundredths, powerW in watts, energy in watt-seconds (1 kWh = 3600000). *)
(* Math.random() is drawn from a small set of values, in hundredths.      *)
(* The collector hands out a fresh non-empty transaction id per           *)
(* StartSession call: call number c returns id c.  0 stands for null.     *)
(***************************************************************************)
EXTENDS Integers, FiniteSets, Sequences, TLC

\* ---- bounds of the model ----
MaxSessions == 2
MaxUpdates == 3
MaxElapsed == 1

\* ---- program constants ----
INITIAL_SOC == 20
TARGET_SOC == 90
INTERVAL_SECONDS == 1
maxPower == 50000

Scale == 100

\* Math.random() draws, in hundredths: two for soc, one for each other field
SocRand == {0, 50}
VoltRand == {0}
PowerRand == {50}
TempRand == {50}

Min(a, b) == IF a <= b THEN a ELSE b
Max(a, b) == IF a >= b THEN a ELSE b

TxIds == 1..MaxSessions
Null == 0

VARIABLES
  status,          \* useState<SessionStatus>
  error,           \* useState<string | null>: "none", "start" or "update"
  transactionId,   \* useState<string | null>
  chargerState,    \* useState<ChargerState>
  startTime,       \* useState<Date | null>: the start call that set it
  elapsedSeconds,  \* useState(0)
  energyDispensed, \* useState(0), watt-seconds
  intervalRef,     \* useRef: handle of the tick interval, or Null
  timers,          \* live setInterval handles (handle = id in the closure)
  startCalls,      \* StartSession calls in flight
  endCalls,        \* EndSession calls in flight, per transaction id
  updCalls,        \* SendUpdate calls in flight
  nStart,          \* StartSession calls issued so far
  nUpd,            \* SendUpdate calls issued so far
  ended,           \* EndSession calls issued so far, per transaction id
  sent,            \* SendUpdate calls issued so far, per transaction id
  calls,           \* the collector calls issued by the latest step, in order
  lastUpdate       \* the latest SendUpdate call issued so far

vars == <<status, error, transactionId, chargerState, startTime,
          elapsedSeconds, energyDispensed, intervalRef, timers, startCalls,
          endCalls, updCalls, nStart, nUpd, ended, sent, calls, lastUpdate>>

InitialChargerState ==
  [soc |-> INITIAL_SOC * Scale, powerW |-> 0, voltageV |-> 400 * Scale,
   currentA |-> 0, tempC |-> 20 * Scale]

\* generateNextState(prev); rs, rv, rp, rt are its four Math.random() draws
generateNextState(prev, rs, rv, rp, rt) ==
  LET soc == Min(TARGET_SOC * Scale, prev.soc + Scale + rs)
      voltageV == 380 * Scale + 40 * rv
      \* socFactor in 1/10000: 1 - max(0, soc/100 - 0.6) * 1.5
      socFactor == 10000 - (Max(0, soc - 60 * Scale) * 3) \div 2
      powerBase == (maxPower * Max(2000, socFactor)) \div 10000
      powerW == (powerBase * (90 + (rp \div 5))) \div 100
      currentA == (powerW * Scale * Scale) \div voltageV
      tempC == prev.tempC + rt \div 2
  IN [soc |-> soc, powerW |-> powerW, voltageV |-> voltageV,
      currentA |-> currentA, tempC |-> tempC]

\* the records handed to the collector client
StartCall(socStart) ==
  [op |-> "start", tx |-> Null, soc |-> socStart, tempC |-> 0]
UpdateCall(t, next) ==
  [op |-> "update", tx |-> t, soc |-> next.soc, tempC |-> next.tempC]
EndCall(t) == [op |-> "end", tx |-> t, soc |-> 0, tempC |-> 0]
NoCall == [op |-> "none", tx |-> Null, soc |-> 0, tempC |-> 0]

Init ==
  /\ status = "idle"
  /\ error = "none"
  /\ transactionId = Null
  /\ chargerState = InitialChargerState
  /\ startTime = Null
  /\ elapsedSeconds = 0
  /\ energyDispensed = 0
  /\ intervalRef = Null
  /\ timers = {}
  /\ startCalls = {}
  /\ endCalls = [t \in TxIds |-> 0]
  /\ updCalls = 0
  /\ nStart = 0
  /\ nUpd = 0
  /\ ended = [t \in TxIds |-> 0]
  /\ sent = [t \in TxIds |-> 0]
  /\ calls = <<>>
  /\ lastUpdate = NoCall

\* The START CHARGING button: rendered unless running, disabled while starting
StartEnabled == status # "running" /\ status # "starting"

\* mutant: the END SESSION button is never disabled
StopEnabled_Always == TRUE

\* The END SESSION button: disabled unless running
StopEnabled == status = "running"

\* startSession up to its await: click on START CHARGING
StartRequest ==
  /\ StartEnabled
  /\ nStart < MaxSessions
  /\ error' = "none"
  /\ status' = "starting"
  /\ nStart' = nStart + 1
  /\ startCalls' = startCalls \cup {nStart + 1}
  /\ calls' = <<StartCall(INITIAL_SOC * Scale)>>
  /\ UNCHANGED <<transactionId, chargerState, startTime, elapsedSeconds,
                 energyDispensed, intervalRef, timers, endCalls, updCalls,
                 nUpd, ended, sent, lastUpdate>>

\* body of sendUpdate with transaction_id = t, applied to energy e
SendUpdateEffect(t, e, rs, rv, rp, rt) ==
  LET next == generateNextState(chargerState, rs, rv, rp, rt) IN
  /\ chargerState' = next
  /\ energyDispensed' = e + next.powerW * INTERVAL_SECONDS
  /\ IF t # Null
       THEN /\ updCalls' = updCalls + 1
            /\ nUpd' = nUpd + 1
            /\ sent' = [sent EXCEPT ![t] = @ + 1]
            /\ calls' = <<UpdateCall(t, next)>>
            /\ lastUpdate' = UpdateCall(t, next)
       ELSE /\ UNCHANGED <<updCalls, nUpd, sent, lastUpdate>>
            /\ calls' = <<>>

\* mutant: the interval is installed without the immediate first update
StartSucceeds_NoFirstTick(c) ==
  /\ c \in startCalls
  /\ nUpd < MaxUpdates
  /\ startCalls' = startCalls \ {c}
  /\ transactionId' = c
  /\ startTime' = c
  /\ elapsedSeconds' = 0
  /\ energyDispensed' = 0
  /\ status' = "running"
  /\ intervalRef' = c
  /\ timers' = timers \cup {c}
  /\ calls' = <<>>
  /\ UNCHANGED <<error, chargerState, endCalls, updCalls, nStart, nUpd,
                 ended, sent, lastUpdate>>

\* startSession after startCharge resolved with transaction_id = c
StartSucceeds(c) ==
  /\ c \in startCalls
  /\ nUpd < MaxUpdates
  /\ startCalls' = startCalls \ {c}
  /\ transactionId' = c
  /\ startTime' = c
  /\ elapsedSeconds' = 0
  /\ status' = "running"
  /\ \E rs \in SocRand, rv \in VoltRand, rp \in PowerRand, rt \in TempRand :
       SendUpdateEffect(c, 0, rs, rv, rp, rt)
  /\ intervalRef' = c
  /\ timers' = timers \cup {c}
  /\ UNCHANGED <<error, endCalls, nStart, ended>>

\* mutant: a rejected startCharge is swallowed without a state change
StartFails_Swallowed(c) ==
  /\ c \in startCalls
  /\ startCalls' = startCalls \ {c}
  /\ calls' = <<>>
  /\ UNCHANGED <<status, error, transactionId, chargerState, startTime,
                 elapsedSeconds, energyDispensed, intervalRef, timers,
                 endCalls, updCalls, nStart, nUpd, ended, sent, lastUpdate>>

\* startSession's catch: startCharge rejected
StartFails(c) ==
  /\ c \in startCalls
  /\ startCalls' = startCalls \ {c}
  /\ error' = "start"
  /\ status' = "error"
  /\ calls' = <<>>
  /\ UNCHANGED <<transactionId, chargerState, startTime, elapsedSeconds,
                 energyDispensed, intervalRef, timers, endCalls, updCalls,
                 nStart, nUpd, ended, sent, lastUpdate>>

\* mutant: a tick is skipped while an earlier SendUpdate is unsettled
Tick_AwaitsPrevious(i) ==
  /\ i \in timers
  /\ nUpd < MaxUpdates
  /\ updCalls = 0
  /\ \E rs \in SocRand, rv \in VoltRand, rp \in PowerRand, rt \in TempRand :
       SendUpdateEffect(i, energyDispensed, rs, rv, rp, rt)
  /\ UNCHANGED <<status, error, transactionId, startTime, elapsedSeconds,
                 intervalRef, timers, startCalls, endCalls, nStart, ended>>

\* the setInterval callback of the session with transaction_id = i
Tick(i) ==
  /\ i \in timers
  /\ nUpd < MaxUpdates
  /\ \E rs \in SocRand, rv \in VoltRand, rp \in PowerRand, rt \in TempRand :
       SendUpdateEffect(i, energyDispensed, rs, rv, rp, rt)
  /\ UNCHANGED <<status, error, transactionId, startTime, elapsedSeconds,
                 intervalRef, timers, startCalls, endCalls, nStart, ended>>

\* sendChargeUpdate resolved: nothing is chained on success
UpdateSucceeds ==
  /\ updCalls > 0
  /\ updCalls' = updCalls - 1
  /\ calls' = <<>>
  /\ UNCHANGED <<status, error, transactionId, chargerState, startTime,
                 elapsedSeconds, energyDispensed, intervalRef, timers,
                 startCalls, endCalls, nStart, nUpd, ended, sent,
                 lastUpdate>>

\* mutant: the failure handler also rolls the session back
UpdateFails_RollsBack ==
  /\ updCalls > 0
  /\ updCalls' = updCalls - 1
  /\ error' = "update"
  /\ status' = "error"
  /\ transactionId' = Null
  /\ energyDispensed' = 0
  /\ chargerState' = InitialChargerState
  /\ calls' = <<>>
  /\ UNCHANGED <<startTime, elapsedSeconds, intervalRef, timers, startCalls,
                 endCalls, nStart, nUpd, ended, sent, lastUpdate>>

\* the .catch chained on sendChargeUpdate
UpdateFails ==
  /\ updCalls > 0
  /\ updCalls' = updCalls - 1
  /\ error' = "update"
  /\ status' = "error"
  /\ calls' = <<>>
  /\ UNCHANGED <<transactionId, chargerState, startTime, elapsedSeconds,
                 energyDispensed, intervalRef, timers, startCalls, endCalls,
                 nStart, nUpd, ended, sent, lastUpdate>>

\* the reset at the end of stopSession
ResetState ==
  /\ status' = "idle"
  /\ transactionId' = Null
  /\ startTime' = Null
  /\ elapsedSeconds' = 0
  /\ energyDispensed' = 0
  /\ chargerState' = InitialChargerState

\* mutant: stopSession issues EndSession without cancelling the interval
StopRequest_KeepsInterval ==
  /\ StopEnabled
  /\ IF transactionId # Null
       THEN /\ status' = "stopping"
            /\ endCalls' = [endCalls EXCEPT ![transactionId] = @ + 1]
            /\ ended' = [ended EXCEPT ![transactionId] = @ + 1]
            /\ calls' = <<EndCall(transactionId)>>
            /\ UNCHANGED <<transactionId, chargerState, startTime,
                           elapsedSeconds, energyDispensed>>
       ELSE /\ ResetState
            /\ calls' = <<>>
            /\ UNCHANGED <<endCalls, ended>>
  /\ UNCHANGED <<error, intervalRef, timers, startCalls, updCalls, nStart,
                 nUpd, sent, lastUpdate>>

\* stopSession up to its await: click on END SESSION
StopRequest ==
  /\ StopEnabled
  /\ IF intervalRef # Null
       THEN timers' = timers \ {intervalRef} /\ intervalRef' = Null
       ELSE UNCHANGED <<timers, intervalRef>>
  /\ IF transactionId # Null
       THEN /\ status' = "stopping"
            /\ endCalls' = [endCalls EXCEPT ![transactionId] = @ + 1]
            /\ ended' = [ended EXCEPT ![transactionId] = @ + 1]
            /\ calls' = <<EndCall(transactionId)>>
            /\ UNCHANGED <<transactionId, chargerState, startTime,
                           elapsedSeconds, energyDispensed>>
       ELSE /\ ResetState
            /\ calls' = <<>>
            /\ UNCHANGED <<endCalls, ended>>
  /\ UNCHANGED <<error, startCalls, updCalls, nStart, nUpd, sent,
                 lastUpdate>>

\* mutant: the reset at the end of stopSession also clears the error
EndSucceeds_ClearsError(t) ==
  /\ endCalls[t] > 0
  /\ endCalls' = [endCalls EXCEPT ![t] = @ - 1]
  /\ ResetState
  /\ error' = "none"
  /\ calls' = <<>>
  /\ UNCHANGED <<intervalRef, timers, startCalls, updCalls, nStart, nUpd,
                 ended, sent, lastUpdate>>

\* stopSession after endCharge resolved
EndSucceeds(t) ==
  /\ endCalls[t] > 0
  /\ endCalls' = [endCalls EXCEPT ![t] = @ - 1]
  /\ ResetState
  /\ calls' = <<>>
  /\ UNCHANGED <<error, intervalRef, timers, startCalls, updCalls, nStart,
                 nUpd, ended, sent, lastUpdate>>

\* mutant: a rejected endCharge is not caught, so the reset never runs
EndFails_Uncaught(t) ==
  /\ endCalls[t] > 0
  /\ endCalls' = [endCalls EXCEPT ![t] = @ - 1]
  /\ calls' = <<>>
  /\ UNCHANGED <<status, error, transactionId, chargerState, startTime,
                 elapsedSeconds, energyDispensed, intervalRef, timers,
                 startCalls, updCalls, nStart, nUpd, ended, sent,
                 lastUpdate>>

\* stopSession after endCharge rejected: logged, then the same reset
EndFails(t) ==
  /\ endCalls[t] > 0
  /\ endCalls' = [endCalls EXCEPT ![t] = @ - 1]
  /\ ResetState
  /\ calls' = <<>>
  /\ UNCHANGED <<error, intervalRef, timers, startCalls, updCalls, nStart,
                 nUpd, ended, sent, lastUpdate>>

\* updateElapsed of the effect that is mounted while running with a startTime
UpdateElapsed ==
  /\ status = "running" /\ startTime # Null
  /\ elapsedSeconds < MaxElapsed
  /\ elapsedSeconds' = elapsedSeconds + 1
  /\ calls' = <<>>
  /\ UNCHANGED <<status, error, transactionId, chargerState, startTime,
                 energyDispensed, intervalRef, timers, startCalls, endCalls,
                 updCalls, nStart, nUpd, ended, sent, lastUpdate>>

Next ==
  \/ StartRequest
  \/ \E c \in TxIds : StartSucceeds(c)
  \/ \E c \in TxIds : StartFails(c)
  \/ \E i \in TxIds : Tick(i)
  \/ UpdateSucceeds
  \/ UpdateFails
  \/ StopRequest
  \/ \E t \in TxIds : EndSucceeds(t)
  \/ \E t \in TxIds : EndFails(t)
  \/ UpdateElapsed

Spec == Init /\ [][Next]_vars

\* a StartSession or EndSession call in flight settles, with success or
\* with failure (SendUpdate calls need no fairness: nothing waits for them)
SettleStart == \E c \in TxIds : StartSucceeds(c) \/ StartFails(c)
SettleEnd == \E t \in TxIds : EndSucceeds(t) \/ EndFails(t)
CallsSettle == WF_vars(SettleStart) /\ WF_vars(SettleEnd)

SpecLive == Init /\ [][Next]_vars /\ CallsSettle

TypeOK ==
  /\ status \in {"idle", "starting", "running", "stopping", "error"}
  /\ error \in {"none", "start", "update"}
  /\ transactionId \in 0..MaxSessions
  /\ intervalRef \in 0..MaxSessions
  /\ timers \subseteq TxIds
  /\ startCalls \subseteq TxIds
\* ---- steps as the collector and the user see them ----

\* the calls of kind op among the calls a step issued
Issued(cs, op) == {k \in DOMAIN cs : cs[k].op = op}

\* a StartSession call settles with success: a new transaction id is adopted
StartSucceededStep ==
  transactionId' # Null /\ transactionId' # transactionId

\* an EndSession call settles
EndSettledStep == \E t \in TxIds : endCalls'[t] < endCalls[t]

\* a stop request is accepted while running
StopAcceptedStep == status = "running" /\ status' = "stopping"

\* ---- claims ----

C1_NoUpdateAfterFailure_Step ==
  (status = "error" /\ error = "update" /\ transactionId # Null)
    => \A k \in Issued(calls', "update") : calls'[k].tx # transactionId

\* C1: once a SendUpdate issued while running has failed (status error
\* with the update's message), no further SendUpdate is issued for the
\* session the machine holds.
C1_NoUpdateAfterFailure == [][C1_NoUpdateAfterFailure_Step]_vars

C2_LateFailureIgnored_Step ==
  (UpdateFails /\ status \in {"stopping", "idle"})
    => (status' = status /\ error' = error)

\* C2: a SendUpdate failure that arrives while the machine is stopping or
\* idle changes neither status nor lastError.
C2_LateFailureIgnored == [][C2_LateFailureIgnored_Step]_vars

C3_StartRejectedUnlessIdle_Step ==
  status \in {"starting", "running", "stopping"}
    => (nStart' = nStart /\ Issued(calls', "start") = {})

\* C3: while status is starting, running or stopping no StartSession call
\* is issued.
C3_StartRejectedUnlessIdle == [][C3_StartRejectedUnlessIdle_Step]_vars

C4_StopEndsIdle_Step ==
  /\ StopAcceptedStep
       => /\ Cardinality(Issued(calls', "end")) = 1
          /\ \A k \in Issued(calls', "end") : calls'[k].tx = transactionId
          /\ endCalls'[transactionId] = endCalls[transactionId] + 1
  /\ (status = "stopping" /\ EndSettledStep)
       => /\ status' = "idle"
          /\ energyDispensed' = 0
          /\ elapsedSeconds' = 0

\* C4: a stop request accepted while running issues exactly one EndSession
\* call, for the current transaction, and the step in which that call
\* settles, with success or with failure, ends in idle with
\* energyDispensedKWh = 0 and elapsedSeconds = 0.
C4_StopEndsIdle == [][C4_StopEndsIdle_Step]_vars

C4_Witness ==
  /\ status = "idle"
  /\ error = "none"
  /\ \E t \in TxIds : ended[t] = 1 /\ endCalls[t] = 0
  /\ energyDispensed = 0
  /\ elapsedSeconds = 0

C5_StartFailureLeavesNoSession_Step ==
  (\E c \in TxIds : StartFails(c))
    => /\ status' = "error"
       /\ transactionId' = Null
       /\ error' # "none"
       /\ timers' \subseteq timers

\* C5: whenever a StartSession call settles with failure the resulting
\* state has status error, transactionId unset, lastError set, and no
\* schedule started.
C5_StartFailureLeavesNoSession == [][C5_StartFailureLeavesNoSession_Step]_vars

\* C6: transactionId is set if and only if status is running or stopping,
\* or status is error and the error is an update failure.
C6_TransactionIdIffSession ==
  (transactionId # Null)
    <=> \/ status \in {"running", "stopping"}
        \/ (status = "error" /\ error = "update")

C7_OneStartOneEnd_Step ==
  /\ StartSucceededStep
       => /\ transactionId' \in startCalls
          /\ transactionId' \notin startCalls'
  /\ \A t \in TxIds : ended'[t] <= 1
  /\ (ended' # ended \/ Issued(calls', "end") # {})
       => /\ StopAcceptedStep
          /\ ended' = [ended EXCEPT ![transactionId] = @ + 1]
          /\ Cardinality(Issued(calls', "end")) = 1

\* C7: a transaction id is adopted only from a StartSession call in flight,
\* which that step consumes; at most one EndSession call is issued per
\* transaction id; and an EndSession call is issued only by the step that
\* takes the machine from running to stopping, for the current id.
C7_OneStartOneEnd == [][C7_OneStartOneEnd_Step]_vars

C7_Witness ==
  /\ status = "stopping"
  /\ transactionId # Null
  /\ ended[transactionId] = 1
  /\ endCalls[transactionId] = 1

C8_SessionStartsAtInitialSoc_Step ==
  StartSucceededStep
    => /\ chargerState.soc = INITIAL_SOC * Scale
       /\ chargerState'.soc >= 21 * Scale
       /\ chargerState'.soc <= 22 * Scale

\* C8: at the moment a StartSession succeeds the physical state has
\* soc = 20, so that after the session's first tick soc is in [21, 22].
C8_SessionStartsAtInitialSoc == [][C8_SessionStartsAtInitialSoc_Step]_vars

C9_FirstTickThenPeriodic_Step ==
  /\ StartSucceededStep
       => /\ status' = "running"
          /\ nUpd' = nUpd + 1
          /\ Cardinality(Issued(calls', "update")) = 1
          /\ \A k \in Issued(calls', "update") :
               calls'[k].tx = transactionId'
          /\ transactionId' \in timers'
          /\ intervalRef' = transactionId'
  /\ (~StartSucceededStep /\ (nUpd' # nUpd \/ Issued(calls', "update") # {}))
       => /\ nUpd' = nUpd + 1
          /\ Cardinality(Issued(calls', "update")) = 1
          /\ \A k \in Issued(calls', "update") : calls'[k].tx \in timers
          /\ timers' = timers

\* C9: the step in which StartSession succeeds enters running, runs the
\* tick handler exactly once (one SendUpdate, for the new id) and leaves
\* that session's schedule live; every other SendUpdate is issued one per
\* step by a live schedule, for the id of that schedule.
C9_FirstTickThenPeriodic == [][C9_FirstTickThenPeriodic_Step]_vars

C9_Witness ==
  /\ status = "running"
  /\ nUpd = 2
  /\ updCalls = 2
  /\ transactionId \in timers
  /\ Issued(calls, "update") # {}
  /\ lastUpdate.tx = transactionId

C10_SocTempMonotone_Step ==
  /\ \A k \in Issued(calls', "update") :
       (lastUpdate.op = "update" /\ lastUpdate.tx = calls'[k].tx)
         => /\ calls'[k].soc >= lastUpdate.soc
            /\ calls'[k].tempC >= lastUpdate.tempC
  /\ chargerState'.soc <= TARGET_SOC * Scale

\* C10: from one SendUpdate of a session to the next one of the same
\* session soc and tempC do not decrease, and soc never exceeds 90.
C10_SocTempMonotone == [][C10_SocTempMonotone_Step]_vars

\* C11: the soc handed to the collector is a fraction in [0, 1]: the
\* socStart of every StartSession call and the soc of every SendUpdate
\* record issued by a step lie between 0 and 1.
C11_SocSentAsFraction ==
  \A k \in Issued(calls, "start") \cup Issued(calls, "update") :
    calls[k].soc >= 0 /\ calls[k].soc <= 1 * Scale

\* C12: while the machine holds a session that has run N ticks at the
\* constant power P, energyDispensed equals N * P * I (in watt-seconds;
\* P is the power of the current sample, the same at every tick here).
C12_EnergyIsNPI ==
  transactionId # Null
    => energyDispensed
         = sent[transactionId] * chargerState.powerW * INTERVAL_SECONDS

C13_ErrorSetAndCleared_Step ==
  /\ (error = "none" /\ error' # "none") => status' = "error"
  /\ (error # "none" /\ error' = "none")
       => /\ status' = "starting"
          /\ nStart' = nStart + 1
          /\ Issued(calls', "start") # {}

\* C13: lastError goes from absent to present only in a step that sets
\* status to error, and from present to absent only in a step that begins
\* a start request (status becomes starting, a StartSession is issued).
C13_ErrorSetAndCleared == [][C13_ErrorSetAndCleared_Step]_vars

C13_Witness ==
  /\ status = "starting"
  /\ error = "none"
  /\ transactionId # Null
  /\ transactionId \in timers

C14_StopIgnoredUnlessRunning_Step ==
  status \in {"starting", "error"}
    => /\ ~ENABLED StopRequest
       /\ Issued(calls', "end") = {}
       /\ ended' = ended
       /\ status' # "stopping"

\* C14: while status is starting or error a stop request is not accepted:
\* the stop handler cannot run, so no step issues an EndSession call or
\* enters stopping from these states.
C14_StopIgnoredUnlessRunning == [][C14_StopIgnoredUnlessRunning_Step]_vars

C14_Witness ==
  /\ status = "error"
  /\ transactionId # Null
  /\ transactionId \in timers
  /\ ended[transactionId] = 0
  /\ ~ENABLED StopRequest

C15_UpdateFailureKeepsSample_Step ==
  (status = "running" /\ UpdateFails)
    => /\ status' = "error"
       /\ error' # "none"
       /\ chargerState' = chargerState
       /\ energyDispensed' = energyDispensed
       /\ transactionId' = transactionId
       /\ startTime' = startTime
       /\ elapsedSeconds' = elapsedSeconds
       /\ nUpd' = nUpd
       /\ Issued(calls', "update") = {}

\* C15: when a SendUpdate fails while running, status becomes error and
\* lastError is set; the physical state and the energy produced by the
\* ticks so far, transactionId, startTime and elapsedSeconds are kept, and
\* the step issues no SendUpdate (no retry).
C15_UpdateFailureKeepsSample == [][C15_UpdateFailureKeepsSample_Step]_vars

C15_Witness ==
  /\ status = "error"
  /\ error = "update"
  /\ transactionId # Null
  /\ lastUpdate.tx = transactionId
  /\ chargerState.soc = lastUpdate.soc
  /\ energyDispensed
       = sent[transactionId] * chargerState.powerW * INTERVAL_SECONDS
  /\ sent[transactionId] = 2

\* C16: tick dispatch does not wait for earlier SendUpdate calls: while
\* running with the session's schedule live (and the update budget of the
\* model not used up) the tick can fire whatever number of SendUpdate
\* calls is in flight, and any call in flight can settle either way.
C16_TickIsFireAndForget ==
  /\ (status = "running" /\ transactionId \in timers /\ nUpd < MaxUpdates)
       => ENABLED Tick(transactionId)
  /\ updCalls > 0 => (ENABLED UpdateSucceeds /\ ENABLED UpdateFails)

C16_Witness ==
  /\ status = "running"
  /\ transactionId \in timers
  /\ sent[transactionId] >= 2
  /\ updCalls >= 2
  /\ updCalls = sent[transactionId]

\* C17: provided every issued network call settles, the transient states
\* are left: from starting the machine reaches running or error, and
\* from stopping it reaches idle.
C17_TransientStatesLeft ==
  /\ (status = "starting") ~> (status \in {"running", "error"})
  /\ (status = "stopping") ~> (status = "idle")

C17_Witness ==
  /\ status = "starting"
  /\ startCalls # {}
  /\ \E t \in TxIds : endCalls[t] > 0

\* C18: at most one tick schedule is live, it is the one whose handle the
\* machine holds, and a schedule is live only while status is running.
C18_OneScheduleWhileRunning ==
  /\ Cardinality(timers) <= 1
  /\ timers \subseteq {intervalRef}
  /\ timers # {} => status = "running"

\* C19: in status idle the session is fully reset: no energy, no elapsed
\* time, no transactionId, no startTime, and the initial physical state.
C19_IdleIsReset ==
  status = "idle"
    => /\ energyDispensed = 0
       /\ elapsedSeconds = 0
       /\ transactionId = Null
       /\ startTime = Null
       /\ chargerState = InitialChargerState

C20_UpdateCarriesCurrentId_Step ==
  \A k \in Issued(calls', "update") : calls'[k].tx = transactionId'

\* C20: every SendUpdate issued by a step carries the transactionId the
\* machine holds when the step is done, never the id of an earlier
\* session and never while transactionId is unset.
C20_UpdateCarriesCurrentId == [][C20_UpdateCarriesCurrentId_Step]_vars

C21_NoUpdateAfterEnd_Step ==
  \A k \in Issued(calls', "update") : ended[calls'[k].tx] = 0

\* C21: once the EndSession call for a transactionId has been issued, no
\* step issues a SendUpdate for that transactionId (one issued earlier may
\* still be in flight and settle later).
C21_NoUpdateAfterEnd == [][C21_NoUpdateAfterEnd_Step]_vars

\* EndSession for t is in flight, the interval of t is cancelled, and a
\* SendUpdate of t issued before the stop is still unsettled
C21_Witness ==
  \E t \in TxIds :
    /\ status = "stopping" /\ transactionId = t
    /\ ended[t] = 1 /\ endCalls[t] = 1
    /\ t \notin timers /\ intervalRef = Null
    /\ sent[t] >= 2 /\ updCalls > 0 /\ lastUpdate.tx = t
====
